---- MODULE Spec2Model ----
(***************************************************************************)
(* Model of src/email_processor.py (class CLISupportSystem): the support   *)
(* e-mail triage pipeline and its priority queue.                          *)
(*                                                                         *)
(* Python strings are modelled as sequences of one-character strings, so   *)
(* that lower(), `in', split(), strip() and the two regular expressions    *)
(* are computed on characters.  Time is counted in minutes.                *)
(***************************************************************************)
EXTENDS Integers, Sequences, FiniteSets, TLC

\* ------------------------------------------------------------------ bounds
MaxEmails == 3
MaxProcessed == 3
MaxChanged == 1
MaxWords == 2

\* --------------------------------------------------------------- characters
LowerLetters ==
    {"a","b","c","d","e","f","g","h","i","j","k","l","m",
     "n","o","p","q","r","s","t","u","v","w","x","y","z"}

UpperLetters ==
    {"A","B","C","D","E","F","G","H","I","J","K","L","M",
     "N","O","P","Q","R","S","T","U","V","W","X","Y","Z"}

Digits == {"0","1","2","3","4","5","6","7","8","9"}

Letters == LowerLetters \cup UpperLetters

\* \w of the re module (ASCII part)
WordChars == Letters \cup Digits \cup {"_"}

ToLower ==
    [A |-> "a", B |-> "b", C |-> "c", D |-> "d", E |-> "e", F |-> "f",
     G |-> "g", H |-> "h", I |-> "i", J |-> "j", K |-> "k", L |-> "l",
     M |-> "m", N |-> "n", O |-> "o", P |-> "p", Q |-> "q", R |-> "r",
     S |-> "s", T |-> "t", U |-> "u", V |-> "v", W |-> "w", X |-> "x",
     Y |-> "y", Z |-> "z"]

DigitValue ==
    [c \in Digits |->
        CASE c = "0" -> 0 [] c = "1" -> 1 [] c = "2" -> 2 [] c = "3" -> 3
          [] c = "4" -> 4 [] c = "5" -> 5 [] c = "6" -> 6 [] c = "7" -> 7
          [] c = "8" -> 8 [] c = "9" -> 9]

\* str.lower()
lower(t) ==
    <<>> \o [i \in 1..Len(t) |-> IF t[i] \in UpperLetters THEN ToLower[t[i]] ELSE t[i]]

\* `k in t' on strings: k occurs in t as a substring
Contains(k, t) ==
    \E i \in 1..(Len(t) - Len(k) + 1) : \A j \in 1..Len(k) : t[i + j - 1] = k[j]

\* any(keyword in t for keyword in keywords)
AnyIn(keywords, t) ==
    \E n \in 1..Len(keywords) : Contains(keywords[n], t)

\* sum(1 for keyword in keywords if keyword in t)
CountIn(keywords, t) ==
    Cardinality({n \in 1..Len(keywords) : Contains(keywords[n], t)})

\* f"{subject} {body}"
JoinText(subject, body) == subject \o <<" ">> \o body

RECURSIVE SplitAt(_, _, _)
\* re.split on a set of single characters: the pieces between separators,
\* empty pieces included; cur is the piece being read
SplitAt(t, seps, cur) ==
    IF t = <<>> THEN <<cur>>
    ELSE IF Head(t) \in seps
         THEN <<cur>> \o SplitAt(Tail(t), seps, <<>>)
         ELSE SplitAt(Tail(t), seps, Append(cur, Head(t)))

RECURSIVE lstrip(_, _)
lstrip(t, cs) ==
    IF t # <<>> /\ Head(t) \in cs THEN lstrip(Tail(t), cs) ELSE t

RECURSIVE rstrip(_, _)
rstrip(t, cs) ==
    IF t # <<>> /\ t[Len(t)] \in cs THEN rstrip(SubSeq(t, 1, Len(t) - 1), cs) ELSE t

\* str.strip()
strip(t) == rstrip(lstrip(t, {" "}), {" "})

SelectNonEmpty(ss) == SelectSeq(ss, LAMBDA s : s # <<>>)

\* str.split(): the whitespace-separated words
Words(t) == SelectNonEmpty(SplitAt(t, {" "}, <<>>))

\* ------------------------------------------------------ __init__ (l.17-35)
priority_keywords ==
    << <<"u","r","g","e","n","t">>, <<"c","r","i","t","i","c","a","l">>, <<"i","m","m","e","d","i","a","t","e","l","y">>, <<"e","m","e","r","g","e","n","c","y">>, <<"c","a","n","n","o","t"," ","a","c","c","e","s","s">>,
       <<"b","l","o","c","k","e","d">>, <<"d","o","w","n">>, <<"b","r","o","k","e","n">>, <<"n","o","t"," ","w","o","r","k","i","n","g">> >>

\* keys of knowledge_base
knowledge_base_keys ==
    {"account_verification", "login_issues", "billing_errors",
     "api_integration", "subscription", "password_reset"}

\* knowledge_base.get(category, default)
knowledge_base_get(category) ==
    IF category \in knowledge_base_keys
    THEN "knowledge_base entry"
    ELSE "Our team is looking into your request and will provide assistance shortly."

\* ------------------------------------------- sentiment analyzer (l.7, l.73)
\* SentimentIntensityAnalyzer is a library, not code of this program.  The
\* stand-in keeps what the program relies on and what the library does with
\* letter case: a deterministic function of the text, valences looked up on
\* the lower-cased word, a word written in capitals inside a text that is
\* not all capitals is emphasised by C_INCR, and the sum is normalised to
\* the compound value in [-1, 1].  Valences are in tenths, compound in
\* hundredths (truncated toward zero).
Punctuation == {".", ",", "!", "?", ";", ":"}

VaderLexicon ==
    { <<<<"g","o","o","d">>, 19>>, <<<<"g","r","e","a","t">>, 31>>, <<<<"b","a","d">>, 0 - 25>>, <<<<"t","e","r","r","i","b","l","e">>, 0 - 21>> }

C_INCR == 7

NormAlpha == 1500

isupper(w) ==
    /\ \E i \in 1..Len(w) : w[i] \in UpperLetters
    /\ \A i \in 1..Len(w) : w[i] \notin LowerLetters

allcap_differential(ws) ==
    /\ \E n \in 1..Len(ws) : isupper(ws[n])
    /\ \E n \in 1..Len(ws) : ~ isupper(ws[n])

\* the lexicon entries of a word: none or one
Lookup(key) == {e[2] : e \in {x \in VaderLexicon : x[1] = key}}

Emphasised(v, caps) ==
    IF caps THEN (IF v > 0 THEN v + C_INCR ELSE v - C_INCR) ELSE v

Valence(w, capdiff) ==
    LET hit == Lookup(lower(rstrip(lstrip(w, Punctuation), Punctuation)))
    IN  IF hit = {} THEN 0
        ELSE Emphasised(CHOOSE v \in hit : TRUE, isupper(w) /\ capdiff)

RECURSIVE SumValence(_, _)
SumValence(ws, capdiff) ==
    IF ws = <<>> THEN 0
    ELSE Valence(Head(ws), capdiff) + SumValence(Tail(ws), capdiff)

\* score / sqrt(score^2 + alpha), in hundredths
Normalize(s) ==
    LET mag == CHOOSE c \in 0..99 :
                   /\ c * c * (s * s + NormAlpha) <= 10000 * s * s
                   /\ (c + 1) * (c + 1) * (s * s + NormAlpha) > 10000 * s * s
    IN  IF s < 0 THEN 0 - mag ELSE mag

Compound(ws) == Normalize(SumValence(ws, allcap_differential(ws)))

\* self.sia.polarity_scores(text)['compound']
polarity_scores(text) == Compound(Words(text))

\* ------------------------------------------------ analyze_sentiment (l.71)
\* the three branches on the compound score (l.76-81)
SentimentOf(compound) ==
    IF compound >= 5 THEN <<"Positive", compound>>
    ELSE IF compound <= 0 - 5 THEN <<"Negative", compound>>
    ELSE <<"Neutral", compound>>

analyze_sentiment(text) == SentimentOf(polarity_scores(text))

\* --------------------------------------------------- filter_emails (l.56)
support_keywords ==
    << <<"s","u","p","p","o","r","t">>, <<"q","u","e","r","y">>, <<"r","e","q","u","e","s","t">>, <<"h","e","l","p">>, <<"a","s","s","i","s","t">>, <<"i","s","s","u","e">>, <<"p","r","o","b","l","e","m">> >>

IsSupport(email) ==
    \/ AnyIn(support_keywords, lower(email.subject))
    \/ AnyIn(support_keywords, lower(email.body))

\* ---------------------------------------------- determine_priority (l.83)
SentimentAdjustment(sentiment) ==
    IF sentiment = "Negative" THEN 2
    ELSE IF sentiment = "Positive" THEN 0 - 1
    ELSE 0

\* hours_old = (now - sent_date).total_seconds() / 3600 against 1, 4, 12,
\* in minutes
RecencyBonus(minutes_old) ==
    IF minutes_old < 60 THEN 3
    ELSE IF minutes_old < 240 THEN 2
    ELSE IF minutes_old < 720 THEN 1
    ELSE 0

UrgentThreshold == 3

PriorityLabel_strict(urgency_score) ==
    IF urgency_score > UrgentThreshold THEN "Urgent" ELSE "Not urgent"

PriorityLabel(urgency_score) ==
    IF urgency_score >= UrgentThreshold THEN "Urgent" ELSE "Not urgent"

\* returns <<priority, urgency_score>>; clock is datetime.now()
\* the return statement (l.108)
Prioritised(urgency_score) == <<PriorityLabel(urgency_score), urgency_score>>

\* the score of a text that is already lower-cased (l.87-106)
UrgencyScore(text, minutes_old) ==
    CountIn(priority_keywords, text)
        + SentimentAdjustment(analyze_sentiment(text)[1])
        + RecencyBonus(minutes_old)

determine_priority(email, clock) ==
    Prioritised(UrgencyScore(lower(JoinText(email.subject, email.body)),
                             clock - email.sent_date))

\* ------------------------------------------------ categorize_email (l.137)
kw_account_issues ==
    << <<"a","c","c","o","u","n","t">>, <<"v","e","r","i","f","y">>, <<"v","e","r","i","f","i","c","a","t","i","o","n">>, <<"l","o","g","i","n">>, <<"p","a","s","s","w","o","r","d">> >>

kw_billing ==
    << <<"b","i","l","l","i","n","g">>, <<"p","a","y","m","e","n","t">>, <<"c","h","a","r","g","e">>, <<"r","e","f","u","n","d">>, <<"i","n","v","o","i","c","e">> >>

kw_technical ==
    << <<"a","p","i">>, <<"i","n","t","e","g","r","a","t","i","o","n">>, <<"t","e","c","h","n","i","c","a","l">>, <<"s","e","r","v","e","r">>, <<"s","y","s","t","e","m">> >>

kw_general ==
    << <<"q","u","e","s","t","i","o","n">>, <<"q","u","e","r","y">>, <<"i","n","f","o","r","m","a","t","i","o","n">>, <<"h","e","l","p">> >>

\* the dict literal, in insertion order
categories ==
    << <<"account_issues", kw_account_issues>>,
       <<"billing", kw_billing>>,
       <<"technical", kw_technical>>,
       <<"general", kw_general>> >>

\* scores.items() after the counting loop
CategoryScore(n, text) == <<categories[n][1], CountIn(categories[n][2], text)>>

CategoryScores(text) ==
    << CategoryScore(1, text), CategoryScore(2, text),
       CategoryScore(3, text), CategoryScore(4, text) >>

RECURSIVE MaxByScore_last(_, _)
MaxByScore_last(items, best) ==
    IF items = <<>> THEN best
    ELSE MaxByScore_last(Tail(items),
                         IF Head(items)[2] >= best[2] THEN Head(items) ELSE best)

RECURSIVE MaxByScore(_, _)
\* max(items, key=lambda x: x[1]): the first item with the largest score
MaxByScore(items, best) ==
    IF items = <<>> THEN best
    ELSE MaxByScore(Tail(items),
                    IF Head(items)[2] > best[2] THEN Head(items) ELSE best)

\* max(...)[0]
MaxCategory(scores) == MaxByScore(Tail(scores), Head(scores))[1]

categorize_email(email) ==
    MaxCategory(CategoryScores(lower(JoinText(email.subject, email.body))))

\* --------------------------------------------- extract_information (l.110)
IsWordAt(t, p) == p >= 1 /\ p <= Len(t) /\ t[p] \in WordChars

\* \b between positions p and p + 1 (p = 0 and p = Len(t) are the two ends)
Boundary(t, p) == IsWordAt(t, p) # IsWordAt(t, p + 1)

AllIn(t, from, to, cls) ==
    /\ to <= Len(t)
    /\ \A p \in from..to : t[p] \in cls

PhoneSeparators == {"-", "."}

\* phone_pattern = r'\b\d{3}[-.]?\d{3}[-.]?\d{4}\b' tried at position i:
\* the position of the last character of the match, 0 if there is none
\* [-.]? after the three digits that end at position p - 1: where the next
\* group of digits starts
SkipSeparator(t, p) ==
    IF p <= Len(t) /\ t[p] \in PhoneSeparators THEN p + 1 ELSE p

\* the groups of digits start at i, j and k
PhoneGroups(t, i, j, k) ==
    IF /\ Boundary(t, i - 1)
       /\ AllIn(t, i, i + 2, Digits)
       /\ AllIn(t, j, j + 2, Digits)
       /\ AllIn(t, k, k + 3, Digits)
       /\ Boundary(t, k + 3)
    THEN k + 3
    ELSE 0

PhoneTail(t, i, j) == PhoneGroups(t, i, j, SkipSeparator(t, j + 3))

PhoneMatchEnd(t, i) == PhoneTail(t, i, SkipSeparator(t, i + 3))

LocalClass == Letters \cup Digits \cup {".", "_", "%", "+", "-"}

DomainClass == Letters \cup Digits \cup {".", "-"}

\* [A-Z|a-z]
TldClass == Letters \cup {"|"}

\* email_pattern = r'\b[A-Za-z0-9._%+-]+@[A-Za-z0-9.-]+\.[A-Z|a-z]{2,}\b'
\* tried at position i.  The local part is the whole run of LocalClass
\* characters (a shorter one is not followed by @); the domain and the
\* final part are greedy: the longest domain first, then the longest final
\* part that ends at a word boundary.
Least(stops) ==
    IF stops = {} THEN 0 ELSE CHOOSE p \in stops : \A q \in stops : p <= q

\* the position behind the run of LocalClass characters that starts at i
LocalEnd(t, i) == Least({p \in i..Len(t) : t[p] \notin LocalClass})

\* <<last position of the domain, last position of the match>> for a local
\* part that starts at i and is followed by position at
DomainCandidates(t, i, at) ==
    IF at > i /\ t[at] = "@" /\ Boundary(t, i - 1)
    THEN {c \in ((at + 1)..Len(t)) \X ((at + 1)..Len(t)) :
             /\ AllIn(t, at + 1, c[1], DomainClass)
             /\ c[1] + 1 <= Len(t)
             /\ t[c[1] + 1] = "."
             /\ c[2] >= c[1] + 3
             /\ AllIn(t, c[1] + 2, c[2], TldClass)
             /\ Boundary(t, c[2])}
    ELSE {}

Greediest(cands) ==
    IF cands = {} THEN 0
    ELSE (CHOOSE c \in cands :
             \A d \in cands : d[1] < c[1] \/ (d[1] = c[1] /\ d[2] <= c[2]))[2]

EmailMatchEnd(t, i) == Greediest(DomainCandidates(t, i, LocalEnd(t, i)))

RECURSIVE Matches(_, _, _)
\* the matches in the order re.findall reports them: ends[p] is the position
\* where the match that starts at p ends, 0 if no match starts at p
Matches(t, ends, pos) ==
    IF pos > Len(t) THEN <<>>
    ELSE IF ends[pos] = 0 THEN Matches(t, ends, pos + 1)
    ELSE <<SubSeq(t, pos, ends[pos])>> \o Matches(t, ends, ends[pos] + 1)

\* re.findall(phone_pattern, text)
FindPhones(t) ==
    Matches(t, <<>> \o [p \in 1..Len(t) |-> PhoneMatchEnd(t, p)], 1)

\* re.findall(email_pattern, text)
FindEmails(t) ==
    Matches(t, <<>> \o [p \in 1..Len(t) |-> EmailMatchEnd(t, p)], 1)

requirement_keywords ==
    << <<"n","e","e","d">>, <<"w","a","n","t">>, <<"r","e","q","u","i","r","e">>, <<"l","o","o","k","i","n","g"," ","f","o","r">>, <<"h","e","l","p"," ","w","i","t","h">> >>

SentenceEnds == {".", "!", "?"}

RECURSIVE Requirements(_)
\* the loop over re.split(r'[.!?]', text)
Requirements(sentences) ==
    IF sentences = <<>> THEN <<>>
    ELSE IF AnyIn(requirement_keywords, lower(Head(sentences)))
         THEN <<strip(Head(sentences))>> \o Requirements(Tail(sentences))
         ELSE Requirements(Tail(sentences))

\* requirements[:3]
FirstThree(s) == SubSeq(s, 1, IF Len(s) < 3 THEN Len(s) ELSE 3)

\* [email for email in emails if email != email['sender']] (l.132): inside
\* the comprehension the name email is the loop variable, a str, so the
\* condition indexes a str with 'sender' and raises TypeError as soon as
\* there is one match to test; with no match the condition is never run.
AlternateEmails(matches, email) ==
    IF matches = <<>>
    THEN [raised |-> "none", value |-> <<>>]
    ELSE [raised |-> "TypeError", value |-> <<>>]

\* [raised, value]: raised is "none" when the call returns value
\* the return statement (l.130-135), alternate being the outcome of the
\* comprehension
ExtractedInfo(text, alternate) ==
    IF alternate.raised # "none"
    THEN [raised |-> alternate.raised, value |-> <<>>]
    ELSE [raised |-> "none",
          value |-> [phone_numbers |-> FindPhones(text),
                     alternate_emails |-> alternate.value,
                     requirements |->
                         FirstThree(Requirements(SplitAt(text, SentenceEnds, <<>>))),
                     sentiment |-> analyze_sentiment(text)[1]]]

ExtractFrom(text, email) ==
    ExtractedInfo(text, AlternateEmails(FindEmails(text), email))

\* [raised, value]: raised is "none" when the call returns value
extract_information(email) ==
    ExtractFrom(JoinText(email.subject, email.body), email)

\* ----------------------------------------------- generate_response (l.158)
Greeting(sentiment) ==
    IF sentiment = "Negative"
    THEN "Thank you for bringing this to our attention. We sincerely apologize for the inconvenience you've experienced."
    ELSE IF sentiment = "Positive"
    THEN "Thank you for reaching out to us! We appreciate your feedback."
    ELSE "Thank you for contacting our support team."

Empathy(sentiment) ==
    IF sentiment = "Negative"
    THEN "We understand your frustration and are committed to resolving this issue promptly."
    ELSE IF sentiment = "Positive"
    THEN "We're glad to hear from you and are happy to assist."
    ELSE "We're here to help and will address your inquiry promptly."

\* category.replace('_', ' ')
ReplaceUnderscore(category) ==
    IF category = "account_issues" THEN "account issues" ELSE category

Signature == "Best regards, Support Team"

\* the paragraphs of the response text
ResponseText(category, sentiment) ==
    << Greeting(sentiment), Empathy(sentiment), "Regarding your",
       ReplaceUnderscore(category), knowledge_base_get(category),
       Signature >>

generate_response(email, extracted_info) ==
    ResponseText(categorize_email(email), extracted_info.sentiment)

\* ------------------------------------------------------------------- state
VARIABLES
    emails,            \* self.emails
    processed_emails,  \* self.processed_emails: the processed e-mail objects
    priority_queue,    \* self.priority_queue: heap of <<-score, counter, ref>>,
                       \* ref the position in processed_emails of the object
                       \* the tuple shares with that list
    email_counter,     \* self.email_counter
    last               \* the last call, the e-mail number it was given (0 if
                       \* it takes none) and what it reported:
                       \* [op, index, outcome]

vars == <<emails, processed_emails, priority_queue, email_counter, last>>

\* ------------------------------------------------------ the clock and dates
\* minutes from 2025-01-01 00:00 to 2025-03-01 12:00
Noon == 85680

\* what datetime.now() may return when process_emails runs: a wall clock, read
\* anew by every call
ClockReadings == {Noon, Noon + 300}

DaysBefore ==
    <<0, 31, 59, 90, 120, 151, 181, 212, 243, 273, 304, 334>>

TwoDigits(t, p) == 10 * DigitValue[t[p]] + DigitValue[t[p + 1]]

\* datetime.strptime(s, '%Y-%m-%d %H:%M:%S') for the fixed-width form:
\* [raised, value], value in minutes from 2025-01-01 00:00 (seconds dropped)
strptime(s) ==
    LET shaped == /\ Len(s) = 19
                  /\ \A p \in {1,2,3,4,6,7,9,10,12,13,15,16,18,19} : s[p] \in Digits
                  /\ s[5] = "-" /\ s[8] = "-" /\ s[11] = " "
                  /\ s[14] = ":" /\ s[17] = ":"
        year == 100 * TwoDigits(s, 1) + TwoDigits(s, 3)
        month == TwoDigits(s, 6)
        day == TwoDigits(s, 9)
        hour == TwoDigits(s, 12)
        minute == TwoDigits(s, 15)
        second == TwoDigits(s, 18)
    IN  IF /\ shaped
           /\ year >= 1 /\ month \in 1..12 /\ day \in 1..31
           /\ hour <= 23 /\ minute <= 59 /\ second <= 61
        THEN [raised |-> "none",
              value |-> (year - 2025) * 525600
                          + (DaysBefore[month] + day - 1) * 1440
                          + hour * 60 + minute]
        ELSE [raised |-> "ValueError", value |-> 0]

\* ------------------------------------------------------------- CSV contents
Old == <<"2","0","2","5","-","0","3","-","0","1"," ","0","0",":","0","0",":","0","0">>

Morning == <<"2","0","2","5","-","0","3","-","0","1"," ","1","0",":","0","0",":","0","0">>

Recent == <<"2","0","2","5","-","0","3","-","0","1"," ","1","1",":","4","0",":","0","0">>

Amy == <<"a","m","y","@","x",".","i","o">>

SampleRows ==
    { [sender |-> Amy, subject |-> <<"Q","u","e","r","y">>,
       body |-> <<"I"," ","n","e","e","d"," ","g","o","o","d"," ","i","n","f","o"," ","o","n"," ","b","i","l","l","i","n","g",".">>, sent_date |-> Old],
      [sender |-> Amy, subject |-> <<"U","R","G","E","N","T"," ","i","s","s","u","e">>,
       body |-> <<"S","e","r","v","e","r"," ","i","s"," ","d","o","w","n","!"," ","C","a","l","l"," ","5","5","5","-","1","2","3","-","4","5","6","7",".">>, sent_date |-> Recent],
      [sender |-> Amy, subject |-> <<"H","e","l","p"," ","w","i","t","h"," ","l","o","g","i","n">>,
       body |-> <<"R","e","p","l","y"," ","t","o"," ","b","o","b","@","y",".","o","r","g"," ","o","r"," ","a","m","y","@","x",".","i","o",".">>, sent_date |-> Morning],
      [sender |-> Amy, subject |-> <<"Q","u","e","r","y">>,
       body |-> <<"G","O","O","D"," ","b","a","d"," ","s","e","r","v","i","c","e">>, sent_date |-> Old],
      [sender |-> Amy, subject |-> <<"H","e","l","l","o">>,
       body |-> <<"N","i","c","e"," ","w","e","a","t","h","e","r",".">>, sent_date |-> Recent],
      [sender |-> Amy, subject |-> <<"H","e","l","p">>,
       body |-> <<"I"," ","w","a","n","t"," ","a"," ","r","e","f","u","n","d",".">>, sent_date |-> <<"0","1","/","0","3","/","2","0","2","5"," ","0","9",":","0","0">>] }

\* an e-mail without its id
TextFields(email) ==
    [sender |-> email.sender, subject |-> email.subject, body |-> email.body,
     sent_date |-> email.sent_date]

\* the sample rows that load, as e-mails without id
SampleEmails ==
    {[sender |-> r.sender, subject |-> r.subject, body |-> r.body,
      sent_date |-> strptime(r.sent_date).value] :
        r \in {x \in SampleRows : strptime(x.sent_date).raised = "none"}}

\* IsSupport on the sample e-mails, computed once
SupportTable == [e \in SampleEmails |-> IsSupport(e)] @@ <<>>

IsSupportEmail(email) == SupportTable[TextFields(email)]

\* filter_emails (l.56)
filter_emails(emails_) == SelectSeq(emails_, IsSupportEmail)

RECURSIVE SeqsUpTo(_, _)
\* the sequences over S of length at most n
SeqsUpTo(S, n) ==
    IF n <= 0 THEN {<<>>}
    ELSE LET shorter == SeqsUpTo(S, n - 1)
         IN  shorter \cup {Append(s, x) : s \in shorter, x \in S}

\* operator input: the e-mail number typed at the menu
IndexInputs ==
    {<<c>> : c \in {d \in Digits : DigitValue[d] <= MaxProcessed + 1}}
        \cup {<<"-","1">>, <<"t","w","o">>}

\* operator input: the edited response
ResponseInputs == {<<" "," ">>, <<" ","o","k"," ">>}

DetailChoices == {"1", "2", "3"}

\* ---------------------------------------------------------------- __init__
Init ==
    /\ emails = <<>>
    /\ processed_emails = <<>>
    /\ priority_queue = <<>>
    /\ email_counter = 0
    /\ last = [op |-> "__init__", index |-> 0, outcome |-> "none"]

\* ----------------------------------------------------- load_emails (l.37)
\* the email dict of one row (l.41-48)
EmailOf(row, sent_date, n) ==
    [sender |-> row.sender, subject |-> row.subject, body |-> row.body,
     sent_date |-> sent_date, id |-> <<"email_", n>>]

RECURSIVE LoadRows(_, _)
RECURSIVE LoadRow(_, _, _)
\* the loop over df.iterrows(): [raised, emails]
LoadRows(rows, loaded) ==
    IF rows = <<>> THEN [raised |-> "none", emails |-> loaded]
    ELSE LoadRow(rows, loaded, strptime(Head(rows).sent_date))

\* one pass of the loop, date being the outcome of strptime; the except
\* clause (l.52) ends the method with the rows appended so far
LoadRow(rows, loaded, date) ==
    IF date.raised # "none"
    THEN [raised |-> date.raised, emails |-> loaded]
    ELSE LoadRows(Tail(rows),
                  Append(loaded, EmailOf(Head(rows), date.value, Len(loaded) + 1)))

\* r is [raised, emails] of the loop
Loaded(r) ==
    /\ emails' = r.emails
    /\ last' = [op |-> "load_emails", index |-> 0,
                outcome |-> IF r.raised = "none" THEN "True" ELSE "False"]
    /\ UNCHANGED <<processed_emails, priority_queue, email_counter>>

LoadEmails(csv) ==
    /\ Len(emails) + Len(csv) <= MaxEmails
    /\ Loaded(LoadRows(csv, emails))

\* -------------------------------------------------------- heapq.heappush
\* tuple comparison of two heap entries; the third component would be
\* compared only if two entries had the same score and counter
TupleLess(a, b) == a[1] < b[1] \/ (a[1] = b[1] /\ a[2] < b[2])

RECURSIVE SiftDown(_, _, _)
\* heapq._siftdown(heap, 0, pos) with newitem taken out of heap[pos];
\* pos is 0-based as in heapq, the sequence is 1-based
SiftDown(heap, newitem, pos) ==
    LET parentpos == (pos - 1) \div 2
    IN  IF pos > 0 /\ TupleLess(newitem, heap[parentpos + 1])
        THEN SiftDown([heap EXCEPT ![pos + 1] = heap[parentpos + 1]],
                      newitem, parentpos)
        ELSE [heap EXCEPT ![pos + 1] = newitem]

heappush(heap, item) == SiftDown(Append(heap, item), item, Len(heap))

\* ------------------------------------------- sorted(queue, key=x[0])
RECURSIVE InsertAfterEqual(_, _)
\* x put behind every entry whose key is not larger than its own
InsertAfterEqual(sortedq, x) ==
    IF sortedq = <<>> THEN <<x>>
    ELSE IF x[1] < Head(sortedq)[1]
         THEN <<x>> \o sortedq
         ELSE <<Head(sortedq)>> \o InsertAfterEqual(Tail(sortedq), x)

RECURSIVE SortTail(_, _)
SortTail(q, acc) ==
    IF q = <<>> THEN acc
    ELSE SortTail(Tail(q), InsertAfterEqual(acc, Head(q)))

sorted_not(q) == q

\* sorted(q, key=lambda x: x[0]): ascending on the first component, entries
\* with equal keys in the order they have in q (the sort is stable)
sorted_by_key(q) == SortTail(q, <<>>)

\* [email for _, _, email in sorted(self.priority_queue, key=lambda x: x[0])]
\* as references into processed_emails
Thirds(s) == <<>> \o [i \in 1..Len(s) |-> s[i][3]]

PriorityEmails(q) == Thirds(sorted_by_key(q))

\* ------------------------------------------------- process_emails (l.193)
NextCounter_stuck(counter) == IF counter >= 1 THEN counter ELSE counter + 1

\* self.email_counter += 1
NextCounter(counter) == counter + 1

\* the processed_email dict literal (l.206-216)
ProcessedEmail(email, sentiment, priority, category, info, response, counter) ==
    [sender |-> email.sender,
     subject |-> email.subject,
     body |-> email.body,
     sent_date |-> email.sent_date,
     id |-> email.id,
     sentiment |-> sentiment,
     priority |-> priority[1],
     urgency_score |-> priority[2],
     category |-> category,
     extracted_info |-> info,
     generated_response |-> response,
     status |-> "Pending",
     processing_id |-> counter]

\* the calls at the head of the loop body (l.199-203), extracted being the
\* outcome of extract_information: [raised, sentiment, priority, category,
\* extracted_info, response]
Analysis(email, clock, extracted) ==
    [raised |-> extracted.raised,
     sentiment |-> analyze_sentiment(JoinText(email.subject, email.body))[1],
     priority |-> determine_priority(email, clock),
     category |-> categorize_email(email),
     extracted_info |-> extracted.value,
     response |-> IF extracted.raised = "none"
                  THEN generate_response(email, extracted.value)
                  ELSE <<>>]

Analyse(email, clock) == Analysis(email, clock, extract_information(email))

\* The calls are pure functions of the e-mail's text fields and of the clock,
\* so their results on the sample e-mails are computed once, as an explicit
\* table, and looked up.
AnalysisTable ==
    [k \in SampleEmails \X ClockReadings |-> Analyse(k[1], k[2])] @@ <<>>

Analysed(email, clock) == AnalysisTable[<<TextFields(email), clock>>]

\* the dict literal for an analysis that raised nothing
ItemOf(email, a, counter) ==
    ProcessedEmail(email, a.sentiment, a.priority, a.category,
                   a.extracted_info, a.response, counter)

RECURSIVE ProcessLoop(_, _, _, _, _, _)
RECURSIVE ProcessOne(_, _, _, _, _, _, _)
\* the loop over filtered_emails from its n-th element on:
\* [raised, queue, processed, counter]
ProcessLoop(filtered_emails, n, queue, processed, counter, clock) ==
    IF n > Len(filtered_emails)
    THEN [raised |-> "none", queue |-> queue, processed |-> processed,
          counter |-> counter]
    ELSE ProcessOne(filtered_emails, n, queue, processed, counter, clock,
                    Analysed(filtered_emails[n], clock))

\* one pass of the loop body (l.199-221), a being the outcome of its calls;
\* an exception leaves the loop and the method with what was done so far
ProcessOne(filtered_emails, n, queue, processed, counter, clock, a) ==
    IF a.raised # "none"
    THEN [raised |-> a.raised, queue |-> queue, processed |-> processed,
          counter |-> counter]
    ELSE ProcessLoop(filtered_emails, n + 1,
                     heappush(queue,
                              <<0 - a.priority[2], counter, Len(processed) + 1>>),
                     Append(processed, ItemOf(filtered_emails[n], a, counter)),
                     NextCounter(counter),
                     clock)

\* r is [raised, queue, processed, counter] of the loop
Processed(r) ==
    /\ priority_queue' = r.queue
    /\ processed_emails' = r.processed
    /\ email_counter' = r.counter
    /\ last' = [op |-> "process_emails", index |-> 0,
                outcome |-> IF r.raised = "none" THEN "returned" ELSE r.raised]
    /\ UNCHANGED emails

ProcessEmails(clock) ==
    /\ email_counter + Len(filter_emails(emails)) <= MaxProcessed
    /\ Processed(ProcessLoop(filter_emails(emails), 1, priority_queue,
                             processed_emails, email_counter, clock))

\* ------------------------------------------------- display_emails (l.267)
\* the references of the listed e-mails, in the order they are numbered
Filtered(priority_emails, priority_filter) ==
    IF priority_filter = "None"
    THEN priority_emails
    ELSE SelectSeq(priority_emails,
                   LAMBDA ref : processed_emails[ref].priority = priority_filter)

Listing(priority_filter) ==
    Filtered(PriorityEmails(priority_queue), priority_filter)

DisplayEmails(priority_filter) ==
    /\ last' = [op |-> IF priority_filter = "None" THEN "display_emails"
                       ELSE "display_emails(Urgent)",
                index |-> 0,
                outcome |-> IF processed_emails = <<>>
                            THEN "No emails to display."
                            ELSE IF Listing(priority_filter) = <<>>
                            THEN "No emails found."
                            ELSE "listed"]
    /\ UNCHANGED <<emails, processed_emails, priority_queue, email_counter>>

\* ---------------------------------------------- display_analytics (l.226)
DisplayAnalytics ==
    /\ last' = [op |-> "display_analytics", index |-> 0,
                outcome |-> IF processed_emails = <<>>
                            THEN "No emails processed yet." ELSE "shown"]
    /\ UNCHANGED <<emails, processed_emails, priority_queue, email_counter>>

\* ---------------------------------------------- show_email_detail (l.317)
MarkResolved_rescored(item) ==
    [item EXCEPT !.status = "Resolved", !.urgency_score = 0]

\* email['status'] = 'Resolved'
MarkResolved(item) == [item EXCEPT !.status = "Resolved"]

\* email['generated_response'] = new_response
EditResponse(item, new_response) ==
    [item EXCEPT !.generated_response = new_response]

\* not (index < 1 or index > len(self.processed_emails))
InRange(index, size) == ~ (index < 1 \/ index > size)

SelectAt_heap(queue, index) == queue[index][3]

\* priority_emails[index-1]
SelectAt(queue, index) == PriorityEmails(queue)[index]

\* a generated response ends with the signature paragraph; what the operator
\* types is a string of single characters
IsTemplate(response) == response[Len(response)] = Signature

\* the e-mails the operator has resolved or rewritten so far
Changed(processed) ==
    {n \in 1..Len(processed) :
        \/ processed[n].status # "Pending"
        \/ ~ IsTemplate(processed[n].generated_response)}

\* choice and new_response are what the operator types at the two prompts
\* the action on the selected e-mail (l.362-370): ref is its place in
\* processed_emails, edited is input(...).strip()
Act(index, ref, choice, edited) ==
    /\ processed_emails' =
           IF choice = "1"
           THEN [processed_emails EXCEPT ![ref] = MarkResolved(@)]
           ELSE IF choice = "2" /\ edited # <<>>
           THEN [processed_emails EXCEPT ![ref] = EditResponse(@, edited)]
           ELSE processed_emails
    /\ Cardinality(Changed(processed_emails')) <= MaxChanged
    /\ last' = [op |-> "show_email_detail", index |-> index,
                outcome |-> IF choice = "1" THEN "resolved"
                            ELSE IF choice = "2" /\ edited # <<>> THEN "updated"
                            ELSE "back"]
    /\ UNCHANGED <<emails, priority_queue, email_counter>>

ShowEmailDetail(index, choice, new_response) ==
    IF ~ InRange(index, Len(processed_emails))
    THEN /\ last' = [op |-> "show_email_detail", index |-> index,
                     outcome |-> "Invalid email index."]
         /\ UNCHANGED <<emails, processed_emails, priority_queue, email_counter>>
    ELSE Act(index, SelectAt(priority_queue, index), choice, strip(new_response))

\* ------------------------------------------------ run_cli, choice 4 (l.405)
RECURSIVE DecimalValue(_, _)
DecimalValue(ds, acc) ==
    IF ds = <<>> THEN acc
    ELSE DecimalValue(Tail(ds), 10 * acc + DigitValue[Head(ds)])

\* int(s): [raised, value]
\* the digits ds behind an optional sign
Signed(negative, ds) ==
    IF ds # <<>> /\ \A p \in 1..Len(ds) : ds[p] \in Digits
    THEN [raised |-> "none",
          value |-> IF negative THEN 0 - DecimalValue(ds, 0)
                    ELSE DecimalValue(ds, 0)]
    ELSE [raised |-> "ValueError", value |-> 0]

Stripped(t) ==
    IF t # <<>> /\ Head(t) \in {"-", "+"}
    THEN Signed(Head(t) = "-", Tail(t))
    ELSE Signed(FALSE, t)

\* int(s): [raised, value]
IntParse(s) == Stripped(strip(s))

\* typed is what the operator enters at the prompt; ValueError is caught
\* (l.409)
MenuDetail(typed, choice, new_response) ==
    IF IntParse(typed).raised # "none"
    THEN /\ last' = [op |-> "run_cli", index |-> 0,
                     outcome |-> "Please enter a valid number."]
         /\ UNCHANGED <<emails, processed_emails, priority_queue, email_counter>>
    ELSE ShowEmailDetail(IntParse(typed).value, choice, new_response)

\* ----------------------------------------------------------- specification
Next ==
    \/ \E csv \in SeqsUpTo(SampleRows, MaxEmails) : LoadEmails(csv)
    \/ \E clock \in ClockReadings : ProcessEmails(clock)
    \/ \E f \in {"None", "Urgent"} : DisplayEmails(f)
    \/ DisplayAnalytics
    \/ \E typed \in IndexInputs, choice \in DetailChoices :
          \E r \in (IF choice = "2" THEN ResponseInputs ELSE {<<>>}) :
              MenuDetail(typed, choice, r)

Spec == Init /\ [][Next]_vars

\* --------------------------------------- the analysis of generated e-mails
\* what a generated subject or body is made of
TextWords ==
    { <<"a","c","c","o","u","n","t">>, <<"B","i","l","l","i","n","g">>, <<"s","e","r","v","e","r">>, <<"h","e","l","p">>, <<"h","e","l","l","o">>, <<"r","e","f","u","n","d">>,
      <<"b","o","b","@","y",".","o","r","g">>, <<"a","m","y","@","x",".","i","o">> }

RECURSIVE Phrases(_)
\* the texts of at most n words
Phrases(n) ==
    IF n <= 0 THEN {<<>>}
    ELSE LET shorter == Phrases(n - 1)
         IN  shorter \cup {IF p = <<>> THEN w ELSE p \o <<" ">> \o w :
                              p \in shorter, w \in TextWords}

TextEmails ==
    {[sender |-> Amy, subject |-> s, body |-> b, sent_date |-> Noon,
      id |-> <<"email_", 1>>] : s \in TextWords, b \in Phrases(MaxWords)}

\* one generated e-mail is held, nothing is processed
InitText ==
    /\ emails \in {<<e>> : e \in TextEmails}
    /\ processed_emails = <<>>
    /\ priority_queue = <<>>
    /\ email_counter = 0
    /\ last = [op |-> "__init__", index |-> 0, outcome |-> "none"]

\* categorize_email called on the e-mail held
CategorizeEmail ==
    /\ last' = [op |-> "categorize_email", index |-> 0,
                outcome |-> categorize_email(emails[1])]
    /\ UNCHANGED <<emails, processed_emails, priority_queue, email_counter>>

\* extract_information called on the e-mail held
ExtractInformation ==
    /\ last' = [op |-> "extract_information", index |-> 0,
                outcome |-> extract_information(emails[1])]
    /\ UNCHANGED <<emails, processed_emails, priority_queue, email_counter>>

NextText == CategorizeEmail \/ ExtractInformation

SpecText == InitText /\ [][NextText]_vars

\* ================================================================== claims
\* the ordered view: the processed e-mails in the order of PriorityEmails
OrderedView == PriorityEmails(priority_queue)

ViewItem(i) == processed_emails[OrderedView[i]]

\* ---------------------------------------------------------------------- C1
\* C1: any two items of the ordered view with the same urgency_score stand
\* in the order of their processing_id, the one inserted earlier first.
C1_EqualScoresInInsertionOrder ==
    \A i, j \in 1..Len(OrderedView) :
        (i < j /\ ViewItem(i).urgency_score = ViewItem(j).urgency_score)
            => ViewItem(i).processing_id < ViewItem(j).processing_id

\* ---------------------------------------------------------------------- C2
\* C2: the ordered view is sorted by urgency_score descending: for every
\* pair of positions i < j the score at i is at least the score at j.
C2_ViewSortedDescending ==
    \A i, j \in 1..Len(OrderedView) :
        i < j => ViewItem(i).urgency_score >= ViewItem(j).urgency_score

\* three items, two scores at least, and a heap array that is not in view
\* order
C2_Witness ==
    /\ Len(OrderedView) = 3
    /\ ViewItem(1).urgency_score > ViewItem(3).urgency_score
    /\ Thirds(priority_queue) # OrderedView

\* ---------------------------------------------------------------------- C3
\* C3: a step of show_email_detail, whatever the choice, leaves the ordered
\* view as it was (the same items at the same ranks) and leaves every
\* item's urgency_score and processing_id as they were.
C3_MutationKeepsView ==
    [][last'.op = "show_email_detail" =>
          /\ PriorityEmails(priority_queue') = PriorityEmails(priority_queue)
          /\ Len(processed_emails') = Len(processed_emails)
          /\ \A n \in 1..Len(processed_emails) :
                /\ processed_emails'[n].urgency_score
                     = processed_emails[n].urgency_score
                /\ processed_emails'[n].processing_id
                     = processed_emails[n].processing_id]_vars

\* an item that was marked resolved and then had its response edited, in a
\* queue of several items
C3_Witness ==
    /\ last.op = "show_email_detail"
    /\ last.outcome = "updated"
    /\ Len(OrderedView) >= 2
    /\ \E n \in 1..Len(processed_emails) :
          /\ processed_emails[n].status = "Resolved"
          /\ ~ IsTemplate(processed_emails[n].generated_response)

\* ---------------------------------------------------------------------- C4
\* C4: the detail command given something that is no number, or a rank
\* below 1 or above the number of queued items, reports the failure and
\* changes no e-mail, no item and not the queue; given a rank inside
\* [1, size] it acts on the item at that rank of the ordered view and on no
\* other item.
C4_RankSelects ==
    [][last'.op \in {"show_email_detail", "run_cli"} =>
          IF last'.op = "run_cli"
          THEN /\ last'.outcome = "Please enter a valid number."
               /\ UNCHANGED <<emails, processed_emails, priority_queue,
                              email_counter>>
          ELSE IF last'.index < 1 \/ last'.index > Len(priority_queue)
          THEN /\ last'.outcome = "Invalid email index."
               /\ UNCHANGED <<emails, processed_emails, priority_queue,
                              email_counter>>
          ELSE /\ last'.outcome \in {"resolved", "updated", "back"}
               /\ UNCHANGED <<emails, priority_queue, email_counter>>
               /\ Len(processed_emails') = Len(processed_emails)
               /\ \A n \in 1..Len(processed_emails) :
                     n # OrderedView[last'.index]
                        => processed_emails'[n] = processed_emails[n]
               /\ last'.outcome = "resolved"
                     => processed_emails'[OrderedView[last'.index]].status
                          = "Resolved"
               /\ last'.outcome = "updated"
                     => ~ IsTemplate(processed_emails'[OrderedView[last'.index]]
                                         .generated_response)
               /\ last'.outcome = "back"
                     => processed_emails' = processed_emails]_vars

\* a rank above the size is refused after rank 2 was resolved, rank 2 being
\* an item that was not inserted second
C4_Witness ==
    /\ last.op = "show_email_detail"
    /\ last.outcome = "Invalid email index."
    /\ last.index > Len(priority_queue)
    /\ Len(OrderedView) >= 2
    /\ OrderedView[2] # 2
    /\ ViewItem(2).status = "Resolved"

\* ---------------------------------------------------------------------- C5
\* C5: when process_emails has ended, every loaded e-mail that qualifies as
\* a support e-mail and whose own analysis raises nothing has an item in
\* processed_emails, whatever happened to the other e-mails of the batch.
C5_FailureIsolated ==
    last.op = "process_emails" =>
        \A n \in 1..Len(emails) :
            (IsSupportEmail(emails[n]) /\ Analysed(emails[n], Noon).raised = "none")
                => \E m \in 1..Len(processed_emails) :
                       processed_emails[m].id = emails[n].id

\* ---------------------------------------------------------------------- C6
\* C6: extract_information called on an e-mail returns, and its
\* alternate_emails are the address matches of subject and body without
\* those equal to the sender (none if nothing matches).
C6_ExtractionCompletes ==
    last.op = "extract_information" =>
        /\ last.outcome.raised = "none"
        /\ last.outcome.value.alternate_emails
             = SelectSeq(FindEmails(JoinText(emails[1].subject, emails[1].body)),
                         LAMBDA m : m # emails[1].sender)

\* ---------------------------------------------------------------------- C7
\* C7: every item's urgency_score is the number of priority keywords in its
\* text, plus 2, -1 or 0 for the sentiment label stored on the item being
\* Negative, Positive or Neutral, plus 3, 2, 1 or 0 for its age at the time
\* of processing being under 1, 4, 12 hours or more.
C7_ScoreFromStoredSentiment ==
    \A n \in 1..Len(processed_emails) :
        \E clock \in ClockReadings :
            processed_emails[n].urgency_score =
                CountIn(priority_keywords,
                        lower(JoinText(processed_emails[n].subject,
                                       processed_emails[n].body)))
                + (IF processed_emails[n].sentiment = "Negative" THEN 2
                   ELSE IF processed_emails[n].sentiment = "Positive" THEN 0 - 1
                   ELSE 0)
                + (IF clock - processed_emails[n].sent_date < 60 THEN 3
                   ELSE IF clock - processed_emails[n].sent_date < 240 THEN 2
                   ELSE IF clock - processed_emails[n].sent_date < 720 THEN 1
                   ELSE 0)

\* ---------------------------------------------------------------------- C8
\* C8: the queue, processed_emails and email_counter have the same size;
\* the n-th item inserted carries processing_id n - 1, so the ids increase
\* strictly in insertion order; the ids in the queue are pairwise distinct
\* and each is the id of the item its tuple refers to.
C8_SequenceIds ==
    /\ Len(priority_queue) = Len(processed_emails)
    /\ Len(processed_emails) = email_counter
    /\ \A n \in 1..Len(processed_emails) :
          processed_emails[n].processing_id = n - 1
    /\ \A i, j \in 1..Len(priority_queue) :
          i # j => priority_queue[i][2] # priority_queue[j][2]
    /\ \A i \in 1..Len(priority_queue) :
          processed_emails[priority_queue[i][3]].processing_id
              = priority_queue[i][2]

\* a second batch that inserted an item and was then aborted
C8_Witness ==
    /\ last.op = "process_emails"
    /\ last.outcome = "TypeError"
    /\ email_counter >= 2

\* ---------------------------------------------------------------------- C9
ClaimedOrder == <<"account_issues", "billing", "technical", "general">>

\* the keyword score of the n-th category of ClaimedOrder for the e-mail held
HeldScore(n) ==
    Cardinality({k \in 1..Len(categories[n][2]) :
                    Contains(categories[n][2][k],
                             lower(JoinText(emails[1].subject, emails[1].body)))})

\* C9: the category categorize_email returns has the highest keyword score,
\* and every category before it in the order account_issues, billing,
\* technical, general has a strictly lower score; with every score 0 it is
\* account_issues.
C9_FirstHighestCategory ==
    last.op = "categorize_email" =>
        \E r \in 1..4 :
            /\ last.outcome = ClaimedOrder[r]
            /\ categories[r][1] = ClaimedOrder[r]
            /\ \A n \in 1..4 : HeldScore(n) <= HeldScore(r)
            /\ \A n \in 1..4 : n < r => HeldScore(n) < HeldScore(r)
            /\ (\A n \in 1..4 : HeldScore(n) = 0) => r = 1

\* billing and technical tie for the highest score and billing is returned
C9_Witness ==
    /\ last.op = "categorize_email"
    /\ last.outcome = "billing"
    /\ HeldScore(2) = HeldScore(3)
    /\ HeldScore(2) >= 1
    /\ HeldScore(1) = 0

\* --------------------------------------------------------------------- C10
\* C10: an item is labelled Urgent exactly when its urgency_score is at
\* least 3; the Urgent list is the head of the ordered view, so the k-th
\* entry of the Urgent list is the k-th item of the view, and no item behind
\* that head is Urgent.
C10_UrgentPrefix ==
    /\ \A i \in 1..Len(OrderedView) :
          (ViewItem(i).priority = "Urgent") <=> (ViewItem(i).urgency_score >= 3)
    /\ Len(Listing("Urgent")) <= Len(OrderedView)
    /\ \A k \in 1..Len(Listing("Urgent")) : Listing("Urgent")[k] = OrderedView[k]
    /\ \A i \in (Len(Listing("Urgent")) + 1)..Len(OrderedView) :
          ViewItem(i).priority # "Urgent"

\* an Urgent item with score exactly 3 ahead of an item that is not urgent
C10_Witness ==
    /\ Len(Listing("Urgent")) >= 1
    /\ Len(OrderedView) > Len(Listing("Urgent"))
    /\ \E i \in 1..Len(OrderedView) : ViewItem(i).urgency_score = 3
====
